---- MODULE Spec2Model ----
(***************************************************************************)
(* Workflow execution and continual-learning subsystem of the dashboard    *)
(* (src/dashboard.py): the Flask handlers execute_workflow, stop_execution *)
(* and the background thread DashboardController.                          *)
(* execute_workflow_with_feedback, which share the module globals          *)
(* automation_running and execution_logs and the learning database file.   *)
(***************************************************************************)
EXTENDS Integers, Sequences, FiniteSets, TLC

\* ---------------------------------------------------------------- bounds
\* Number of execution threads the handlers may spawn in one behaviour.
MaxThreads == 2
\* Largest number of automation_steps in a workflow file.
MaxSteps == 2
MaxWords == 2

\* ------------------------------------------------------ program constants
\* learning_curve[-100:]
CurveCap == 100
\* success_rate == 100
FullRate == 100

Threads == 1..MaxThreads
WorkflowIds == {"wf1", "wf2"}
\* The workflow the facade is asked to run.
BasicWorkflowIds == {"wf1"}

VARIABLES
    automation_running,   \* global flag, dashboard.py:22
    execution_logs,       \* global list of log entries, dashboard.py:23
    learning_db,          \* data/learning_database.json
    th,                   \* per execution thread: position and locals
    clock                 \* datetime.now() as seen by update_learning_data

vars == <<automation_running, execution_logs, learning_db, th, clock>>

\* ------------------------------------------------------------- data model
\* A workflow file as execute_workflow_with_feedback finds it on disk.
WorkflowFiles ==
    {[exists |-> FALSE, valid |-> FALSE, nsteps |-> 0],
     [exists |-> TRUE, valid |-> FALSE, nsteps |-> 0]}
    \cup {[exists |-> TRUE, valid |-> TRUE, nsteps |-> n] : n \in 0..MaxSteps}

\* The steps a workflow file may hold: the action string ("none": the key is
\* absent, step.get('action') is None) and whether args carries x and y.
StepKinds ==
    {[action |-> "click", has_xy |-> TRUE, arg |-> "valid", description |-> <<>>],
     [action |-> "click", has_xy |-> FALSE, arg |-> "valid", description |-> <<>>],
     [action |-> "wait", has_xy |-> FALSE, arg |-> "valid", description |-> <<>>],
     [action |-> "scroll", has_xy |-> FALSE, arg |-> "valid", description |-> <<>>],
     [action |-> "none", has_xy |-> FALSE, arg |-> "valid", description |-> <<>>]}

\* The steps drawn when several execution threads interleave.
BasicStepKinds ==
    {[action |-> "click", has_xy |-> TRUE, arg |-> "valid", description |-> <<>>],
     [action |-> "none", has_xy |-> FALSE, arg |-> "valid", description |-> <<>>]}

\* A description is a string, kept as the sequence of its characters.
Space == <<" ">>

\* The words descriptions are made of here.
Words ==
    {<<"S", "a", "v", "e">>,
     <<"o", "p", "e", "n">>,
     <<"C", "L", "O", "S", "E">>,
     <<"r", "e", "o", "p", "e", "n", "e", "d">>,
     <<"f", "i", "l", "e">>}

RECURSIVE Descriptions(_)
\* The descriptions of at most n words, separated by single spaces.
Descriptions(n) ==
    IF n = 0 THEN {<<>>}
    ELSE Descriptions(n - 1) \cup
         {IF d = <<>> THEN w ELSE d \o Space \o w :
              d \in Descriptions(n - 1), w \in Words}

\* The steps get_reasoning_for_action is applied to: every action the
\* templates know, one they do not, a missing one, with every description.
ReasoningSteps ==
    {[action |-> a, has_xy |-> FALSE, arg |-> "valid", description |-> d] :
        a \in {"click", "type", "wait", "hotkey", "scroll", "none"},
        d \in Descriptions(MaxWords)}

\* Every step kind of the dispatcher. arg is the state of the argument the
\* branch reads: text '' for type, seconds < 0 for wait, keys '' for hotkey.
DispatcherStepKinds ==
    StepKinds \cup
    {[action |-> "type", has_xy |-> FALSE, arg |-> "valid", description |-> <<>>],
     [action |-> "type", has_xy |-> FALSE, arg |-> "empty", description |-> <<>>],
     [action |-> "wait", has_xy |-> FALSE, arg |-> "negative", description |-> <<>>],
     [action |-> "hotkey", has_xy |-> FALSE, arg |-> "valid", description |-> <<>>],
     [action |-> "hotkey", has_xy |-> FALSE, arg |-> "empty", description |-> <<>>],
     [action |-> "execute", has_xy |-> FALSE, arg |-> "valid", description |-> <<>>]}

\* The step kinds of AutomationRunner: a missing action ("none") reads as
\* 'unknown' there; "null" is an action that is present but not a string.
RunnerStepKinds ==
    DispatcherStepKinds \cup
    {[action |-> "null", has_xy |-> FALSE, arg |-> "valid", description |-> <<>>]}

NoStep == [action |-> "none", has_xy |-> FALSE, arg |-> "valid", description |-> <<>>]

\* The dictionary load_learning_data returns when the file does not exist.
DefaultLearningData ==
    [total_sessions |-> 0,
     total_automations |-> 0,
     workflow_improvements |-> <<>>,
     success_rate |-> <<>>,
     learning_curve |-> <<>>]

\* ------------------------------------------------------------------- JSON
\* A JSON document as json.dump writes it and json.load reads it: a tree of
\* objects (ordered members), arrays, numbers, strings and literals.
JsonNumber(n) == [json |-> "number", value |-> n]

JsonString(str) == [json |-> "string", value |-> str]

JsonBool(b) == [json |-> "literal", value |-> IF b THEN "true" ELSE "false"]

JsonNull == [json |-> "literal", value |-> "null"]

JsonArray(items) == [json |-> "array", value |-> items]

JsonMember(key, doc) == [key |-> key, value |-> doc]

JsonObject(members) == [json |-> "object", value |-> members]

\* Python's None; an ISO time string is the (positive) clock value it names.
None == 0

\* The order in which the keys of a dictionary keyed by workflow ids are
\* written.
KeyOrder == <<"wf1", "wf2">>

KeysOf(dict) == SelectSeq(KeyOrder, LAMBDA w : w \in DOMAIN dict)

\* json.dump of an ISO time string or None.
DumpTime(x) == IF x = None THEN JsonNull ELSE JsonString(x)

\* json.dump of one per-workflow record.
DumpStats(stats) ==
    JsonObject(<<JsonMember("total", JsonNumber(stats.total)),
                 JsonMember("successful", JsonNumber(stats.successful)),
                 JsonMember("last_run", DumpTime(stats.last_run))>>)

\* json.dump of one learning_curve entry.
DumpEntry(e) ==
    JsonObject(<<JsonMember("timestamp", DumpTime(e.timestamp)),
                 JsonMember("workflow_id", JsonString(e.workflow_id)),
                 JsonMember("success", JsonBool(e.success)),
                 JsonMember("steps_completed", JsonNumber(e.steps_completed)),
                 JsonMember("total_steps", JsonNumber(e.total_steps))>>)

\* json.dump of a curve that writes the newest entry first.
DumpCurveNewestFirst(curve) ==
    JsonArray([j \in 1..Len(curve) |-> DumpEntry(curve[Len(curve) + 1 - j])])

\* json.dump of the learning_curve list.
DumpCurve(curve) ==
    JsonArray([j \in 1..Len(curve) |-> DumpEntry(curve[j])])

\* json.dump(data, f, indent=2) of the learning dictionary.
JsonDump(data) ==
    JsonObject(<<
        JsonMember("total_sessions", JsonNumber(data.total_sessions)),
        JsonMember("total_automations", JsonNumber(data.total_automations)),
        JsonMember("workflow_improvements", JsonObject(<<>>)),
        JsonMember("success_rate",
            JsonObject([j \in 1..Len(KeysOf(data.success_rate)) |->
                JsonMember(KeysOf(data.success_rate)[j],
                           DumpStats(data.success_rate[KeysOf(data.success_rate)[j]]))])),
        JsonMember("learning_curve", DumpCurve(data.learning_curve))>>)

\* json.load: an object becomes a dictionary (of a repeated key the last
\* member counts), an array a list, a number an int, a string a str, and
\* the literals True, False and None.
RECURSIVE JsonLoad(_)
JsonLoad(doc) ==
    IF doc.json = "object"
    THEN LET members == doc.value
             last(k) == CHOOSE j \in 1..Len(members) :
                           /\ members[j].key = k
                           /\ \A m \in (j + 1)..Len(members) : members[m].key # k
         IN [k \in {members[j].key : j \in 1..Len(members)} |->
                JsonLoad(members[last(k)].value)]
    ELSE IF doc.json = "array"
    THEN [j \in 1..Len(doc.value) |-> JsonLoad(doc.value[j])]
    ELSE IF doc.json = "literal"
    THEN (IF doc.value = "null" THEN None ELSE doc.value = "true")
    ELSE doc.value

\* load_learning_data: the parsed content of the file, or the default
\* dictionary.
LoadLearningData(file) ==
    IF file.exists THEN JsonLoad(file.json) ELSE DefaultLearningData

\* save_learning_data: the file now exists and holds the dump of data.
SaveLearningData(data) == [exists |-> TRUE, json |-> JsonDump(data)]

\* A slice that keeps the first n entries instead of the last n.
LastNKeepsOldest(seq, n) ==
    IF Len(seq) <= n THEN seq ELSE SubSeq(seq, 1, n)

\* seq[-n:]
LastN(seq, n) ==
    IF Len(seq) <= n THEN seq ELSE SubSeq(seq, Len(seq) - n + 1, Len(seq))

\* (successful_steps / len(steps)) * 100, as a whole percentage (rounded down);
\* it is 100 exactly when the float of the code compares equal to 100.
SuccessRate(successful_steps, total_steps) ==
    (successful_steps * 100) \div total_steps

\* A record that is created with one run already counted.
StatsOfCountedOnce(data, workflow_id) ==
    IF workflow_id \in DOMAIN data.success_rate
    THEN data.success_rate[workflow_id]
    ELSE [total |-> 1, successful |-> 0, last_run |-> 0]

\* The record of workflow_id after `if workflow_id not in success_rate: ...`
StatsOf(data, workflow_id) ==
    IF workflow_id \in DOMAIN data.success_rate
    THEN data.success_rate[workflow_id]
    ELSE [total |-> 0, successful |-> 0, last_run |-> 0]

\* An entry that never reports success.
CurveEntryNoSuccess(workflow_id, success, successful_steps, total_steps, now) ==
    [timestamp |-> now,
     workflow_id |-> workflow_id,
     success |-> FALSE,
     steps_completed |-> successful_steps,
     total_steps |-> total_steps]

\* The learning_curve entry update_learning_data appends.
CurveEntry(workflow_id, success, successful_steps, total_steps, now) ==
    [timestamp |-> now,
     workflow_id |-> workflow_id,
     success |-> success,
     steps_completed |-> successful_steps,
     total_steps |-> total_steps]

\* An update that leaves total_automations as loaded.
UpdateLearningDataUncounted(data, workflow_id, success, successful_steps, total_steps, now) ==
    LET old == StatsOf(data, workflow_id)
        new == [total |-> old.total + 1,
                successful |-> IF success THEN old.successful + 1 ELSE old.successful,
                last_run |-> now]
    IN [data EXCEPT
          !.success_rate =
              [w \in DOMAIN data.success_rate \cup {workflow_id} |->
                  IF w = workflow_id THEN new ELSE data.success_rate[w]],
          !.learning_curve =
              LastN(Append(@, CurveEntry(workflow_id, success, successful_steps,
                                         total_steps, now)), CurveCap)]

\* An update that also counts a session.
UpdateLearningDataCountsSession(data, workflow_id, success, successful_steps, total_steps, now) ==
    LET old == StatsOf(data, workflow_id)
        new == [total |-> old.total + 1,
                successful |-> IF success THEN old.successful + 1 ELSE old.successful,
                last_run |-> now]
    IN [data EXCEPT
          !.total_sessions = @ + 1,
          !.total_automations = @ + 1,
          !.success_rate =
              [w \in DOMAIN data.success_rate \cup {workflow_id} |->
                  IF w = workflow_id THEN new ELSE data.success_rate[w]],
          !.learning_curve =
              LastN(Append(@, CurveEntry(workflow_id, success, successful_steps,
                                         total_steps, now)), CurveCap)]

\* update_learning_data, applied to the dictionary it loaded (last_run 0 is None).
UpdateLearningData(data, workflow_id, success, successful_steps, total_steps, now) ==
    LET old == StatsOf(data, workflow_id)
        new == [total |-> old.total + 1,
                successful |-> IF success THEN old.successful + 1 ELSE old.successful,
                last_run |-> now]
    IN [data EXCEPT
          !.total_automations = @ + 1,
          !.success_rate =
              [w \in DOMAIN data.success_rate \cup {workflow_id} |->
                  IF w = workflow_id THEN new ELSE data.success_rate[w]],
          !.learning_curve =
              LastN(Append(@, CurveEntry(workflow_id, success, successful_steps,
                                         total_steps, now)), CurveCap)]

\* log_feedback: one entry per message, in order.
Entry(t, msg, step) == [run |-> t, msg |-> msg, step |-> step]

\* A log that takes new entries at its head instead of its tail.
LogFeedbackNewestFirst(logs, t, msgs, step) ==
    [k \in 1..Len(msgs) |-> Entry(t, msgs[k], step)] \o logs

\* A log that takes every entry twice.
LogFeedbackTwice(logs, t, msgs, step) ==
    logs \o [k \in 1..(2 * Len(msgs)) |-> Entry(t, msgs[(k + 1) \div 2], step)]

LogFeedback(logs, t, msgs, step) ==
    logs \o [k \in 1..Len(msgs) |-> Entry(t, msgs[k], step)]

\* ------------------------------------------------------------------- init
IdleThread ==
    [pc |-> "idle", workflow_id |-> "wf1", nsteps |-> 0, i |-> 0,
     successful_steps |-> 0, step |-> NoStep,
     learning_data |-> DefaultLearningData,
     outcome |-> "none", recorded |-> 0, stop_after |-> 0,
     dry_run |-> FALSE, stdout |-> <<>>, effects |-> <<>>]

Init ==
    /\ automation_running = FALSE
    /\ execution_logs = <<>>
    /\ learning_db = [exists |-> FALSE, json |-> JsonNull]
    /\ th = [t \in Threads |-> IdleThread]
    /\ clock = 0

Live(t) == th[t].pc \notin {"idle", "done"}

\* The thread has returned with the given outcome; its locals are gone.
Returned(t, outcome) ==
    [th EXCEPT ![t] = [IdleThread EXCEPT
                          !.pc = "done",
                          !.workflow_id = th[t].workflow_id,
                          !.outcome = outcome,
                          !.recorded = th[t].recorded,
                          !.stop_after = th[t].stop_after]]

\* --------------------------------------------------------- execution thread
\* Each action is the code of execute_workflow_with_feedback between two
\* blocking calls (time.sleep, the injection call, the database file I/O).

\* The `except Exception` handler: a critical-error entry, the flag released,
\* return False.
CriticalError(t) ==
    /\ execution_logs' = LogFeedback(execution_logs, t, <<"critical">>, 0)
    /\ automation_running' = FALSE
    /\ th' = Returned(t, "failed")

\* Thread entry: automation_running = True; execution_logs = []; load the
\* workflow file; announce the run; time.sleep(3).
ThreadBegin(t) ==
    /\ th[t].pc = "start"
    /\ \E f \in WorkflowFiles :
         IF ~f.exists
         THEN /\ automation_running' = TRUE
              /\ execution_logs' = LogFeedback(<<>>, t, <<"notfound">>, 0)
              /\ th' = Returned(t, "notfound")
         ELSE IF ~f.valid
         THEN /\ execution_logs' = LogFeedback(<<>>, t, <<"critical">>, 0)
              /\ automation_running' = FALSE
              /\ th' = Returned(t, "failed")
         ELSE /\ automation_running' = TRUE
              /\ execution_logs' =
                    LogFeedback(<<>>, t, <<"starting", "total", "grace">>, 0)
              /\ th' = [th EXCEPT ![t].pc = "loop", ![t].nsteps = f.nsteps,
                                  ![t].i = 1, ![t].successful_steps = 0]
    /\ UNCHANGED <<learning_db, clock>>

\* The message that announces the dispatch of step s.
AnnounceMessage(s) ==
    IF s.action = "click" THEN <<"clicking">>
    ELSE IF s.action = "type" THEN <<"typing">>
    ELSE IF s.action = "wait" THEN <<"waiting">>
    ELSE IF s.action = "hotkey" THEN <<"pressing">>
    ELSE <<>>

\* str.lower() on one character and on a string.
LowerChar(c) ==
    CASE c = "S" -> "s" [] c = "C" -> "c" [] c = "L" -> "l"
      [] c = "O" -> "o" [] c = "E" -> "e" [] OTHER -> c

Lower(str) == [k \in 1..Len(str) |-> LowerChar(str[k])]

\* `needle in haystack` for strings.
In(needle, haystack) ==
    \E p \in 1..(Len(haystack) - Len(needle) + 1) :
        SubSeq(haystack, p, p + Len(needle) - 1) = needle

\* reasoning_templates.get(action, default); "none" is a missing action.
ReasoningTemplates(action) ==
    CASE action = "click" ->
           "I need to click this element to proceed with the workflow"
      [] action = "type" ->
           "I'm entering this text because it was part of the observed pattern"
      [] action = "wait" ->
           "I'm pausing to allow the UI to update and respond"
      [] action = "hotkey" ->
           "I'm using this keyboard shortcut as it was detected in the original workflow"
      [] OTHER ->
           "Executing this step as part of the learned workflow"

\* A reasoning that looks for 'open' before it looks for 'save'.
GetReasoningOpenFirst(step) ==
    IF In(<<"o", "p", "e", "n">>, Lower(step.description))
    THEN <<ReasoningTemplates(step.action),
           ". This will open the application or file.">>
    ELSE IF In(<<"s", "a", "v", "e">>, Lower(step.description))
    THEN <<ReasoningTemplates(step.action),
           ". This appears to be a save operation.">>
    ELSE IF In(<<"c", "l", "o", "s", "e">>, Lower(step.description))
    THEN <<ReasoningTemplates(step.action),
           ". This will close the current window.">>
    ELSE <<ReasoningTemplates(step.action)>>

\* get_reasoning_for_action: the text, as the pieces the f-string joins.
GetReasoningForAction(step) ==
    IF In(<<"s", "a", "v", "e">>, Lower(step.description))
    THEN <<ReasoningTemplates(step.action),
           ". This appears to be a save operation.">>
    ELSE IF In(<<"o", "p", "e", "n">>, Lower(step.description))
    THEN <<ReasoningTemplates(step.action),
           ". This will open the application or file.">>
    ELSE IF In(<<"c", "l", "o", "s", "e">>, Lower(step.description))
    THEN <<ReasoningTemplates(step.action),
           ". This will close the current window.">>
    ELSE <<ReasoningTemplates(step.action)>>

\* `log_feedback(f"Reasoning: {reasoning}")` with the text itself: the
\* entry holds the text get_reasoning_for_action returns for the step.
Reason(t) ==
    /\ th[t].pc = "reason"
    /\ execution_logs' =
          LogFeedback(execution_logs, t,
                      <<GetReasoningForAction(th[t].step)>>, th[t].i)
    /\ th' = [th EXCEPT ![t].pc = "reasoned"]
    /\ UNCHANGED <<automation_running, learning_db, clock>>

\* An iteration that gives its reasoning before it names the step.
StepMessagesReasoningFirst(s) == <<"reasoning", "step">> \o AnnounceMessage(s)

\* The entries an iteration logs before the dispatch of step s blocks:
\* "Step i/N: ACTION", "Reasoning: ...", then the announcement.
StepMessages(s) == <<"step", "reasoning">> \o AnnounceMessage(s)

\* A break that leaves the loop without a word.
CancelMessagesNone == <<>>

\* `log_feedback("Automation stopped by user")` before the break.
CancelMessages == <<"stopped">>

\* Head of `for i, step in enumerate(steps, 1)` while steps remain: the flag
\* is found cleared (cancellation entry, break), or step i is announced with
\* its reasoning and its dispatch begins. The elements of steps are drawn as
\* the loop reaches them.
LoopHead(t, kinds) ==
    /\ th[t].pc = "loop"
    /\ th[t].i <= th[t].nsteps
    /\ IF ~automation_running
       THEN /\ execution_logs' = LogFeedback(execution_logs, t, CancelMessages, 0)
            /\ th' = [th EXCEPT ![t].pc = "calc", ![t].outcome = "cancelled"]
            /\ UNCHANGED automation_running
       ELSE \E s \in kinds :
              IF s.action = "none"
              THEN CriticalError(t)
              ELSE /\ execution_logs' =
                         LogFeedback(execution_logs, t, StepMessages(s), th[t].i)
                   /\ th' = [th EXCEPT ![t].pc = "dispatch", ![t].step = s]
                   /\ UNCHANGED automation_running
    /\ UNCHANGED <<learning_db, clock>>

\* A dispatch that ends without an entry in the log.
ResultMessageNone(s, raises) == <<>>

\* The outcomes of the blocking call in the branch of step s: TRUE when it
\* raises. pyautogui.click, write and hotkey may raise or return;
\* time.sleep raises ValueError for a negative length and returns otherwise;
\* the other branches call nothing.
Raises(s) ==
    IF s.action = "click" THEN IF s.has_xy THEN BOOLEAN ELSE {FALSE}
    ELSE IF s.action \in {"type", "hotkey"} THEN BOOLEAN
    ELSE IF s.action = "wait" THEN {s.arg = "negative"}
    ELSE {FALSE}

\* The message that ends the dispatch of step s; raises: the blocking call
\* of its branch raised.
ResultMessage(s, raises) ==
    IF raises THEN <<"error">>
    ELSE IF s.action = "click"
    THEN IF s.has_xy THEN <<"clicked">> ELSE <<"nocoords">>
    ELSE IF s.action = "type" THEN <<"typed">>
    ELSE IF s.action = "wait" THEN <<"waited">>
    ELSE IF s.action = "hotkey" THEN <<"pressed">>
    ELSE <<"unknown">>

\* A count that takes a dispatch that raised for a successful one.
CountsAsSuccessfulAlways(s, raises) == TRUE

\* Whether the dispatch of step s reaches `successful_steps += 1`.
CountsAsSuccessful(s, raises) == ~raises

\* An enumeration that passes over every other step.
NextIndexSkips(i) == i + 2

\* The index enumerate(steps, 1) gives the step after step i.
NextIndex(i) == i + 1

\* The rest of the try block of one step, then time.sleep(0.5).
Dispatch(t) ==
    /\ th[t].pc = "dispatch"
    /\ \E raises \in Raises(th[t].step) :
         /\ execution_logs' =
               LogFeedback(execution_logs, t,
                           ResultMessage(th[t].step, raises), th[t].i)
         /\ th' = [th EXCEPT
                     ![t].pc = "loop",
                     ![t].i = NextIndex(@),
                     ![t].step = NoStep,
                     ![t].successful_steps =
                         IF CountsAsSuccessful(th[t].step, raises) THEN @ + 1 ELSE @]
    /\ UNCHANGED <<automation_running, learning_db, clock>>

\* A success test that no run passes.
AllSucceededNever(successful_steps, total_steps) == FALSE

\* A success test with a partial-credit threshold instead of equality.
AllSucceededAtHalf(successful_steps, total_steps) ==
    SuccessRate(successful_steps, total_steps) >= 50

\* The value of `success_rate == 100` computed after the loop.
AllSucceeded(successful_steps, total_steps) ==
    SuccessRate(successful_steps, total_steps) = FullRate

\* After the loop (exhausted, or left by break): "Calculate success" (the
\* division raises for an empty steps list) and the summary entry.
Calculate(t) ==
    /\ \/ th[t].pc = "calc"
       \/ th[t].pc = "loop" /\ th[t].i > th[t].nsteps
    /\ IF th[t].nsteps = 0
       THEN CriticalError(t)
       ELSE /\ execution_logs' =
                  LogFeedback(execution_logs, t,
                      IF AllSucceeded(th[t].successful_steps, th[t].nsteps)
                      THEN <<"complete_all">> ELSE <<"complete_partial">>, 0)
            /\ th' = [th EXCEPT ![t].pc = "record"]
            /\ UNCHANGED automation_running
    /\ UNCHANGED <<learning_db, clock>>

\* The call of update_learning_data, up to its load_learning_data().
RecordLoad(t) ==
    /\ th[t].pc = "record"
    /\ th' = [th EXCEPT ![t].pc = "save",
                        ![t].recorded = @ + 1,
                        ![t].learning_data = LoadLearningData(learning_db)]
    /\ UNCHANGED <<automation_running, execution_logs, learning_db, clock>>

\* A call that passes the number of attempted steps as total_steps.
RecordArgsOfAttempted(t) ==
    [workflow_id |-> th[t].workflow_id,
     success |-> AllSucceeded(th[t].successful_steps, th[t].nsteps),
     successful_steps |-> th[t].successful_steps,
     total_steps |-> th[t].i - 1]

\* The arguments execute_workflow_with_feedback passes to update_learning_data.
RecordArgs(t) ==
    [workflow_id |-> th[t].workflow_id,
     success |-> AllSucceeded(th[t].successful_steps, th[t].nsteps),
     successful_steps |-> th[t].successful_steps,
     total_steps |-> th[t].nsteps]

\* update_learning_data after its load: update the loaded dictionary and
\* write it back; an error of the write reaches the critical-error handler.
RecordSave(t) ==
    /\ th[t].pc = "save"
    /\ \E io_ok \in BOOLEAN :
         IF io_ok
         THEN /\ clock' = clock + 1
              /\ learning_db' =
                    SaveLearningData(
                        UpdateLearningData(th[t].learning_data,
                            RecordArgs(t).workflow_id, RecordArgs(t).success,
                            RecordArgs(t).successful_steps, RecordArgs(t).total_steps,
                            clock + 1))
              /\ th' = [th EXCEPT ![t].pc = "finish",
                                  ![t].learning_data = DefaultLearningData]
              /\ UNCHANGED <<automation_running, execution_logs>>
         ELSE /\ CriticalError(t)
              /\ UNCHANGED <<learning_db, clock>>

\* automation_running = False; return True.
Finish(t) ==
    /\ th[t].pc = "finish"
    /\ automation_running' = FALSE
    /\ th' = Returned(t, IF th[t].outcome = "cancelled"
                          THEN "cancelled" ELSE "completed")
    /\ UNCHANGED <<execution_logs, learning_db, clock>>

\* ------------------------------------------------------------------ facade
\* A handler that never rejects a request.
ExecuteResponseNeverRejects(running) == "started"

\* The response of POST /api/execute/<workflow_id>.
ExecuteResponse(running) ==
    IF running THEN "already_running" ELSE "started"

\* POST /api/execute/<workflow_id>: 400 while the flag is set, else a new
\* Thread is started on execute_workflow_with_feedback.
ExecuteWorkflow(w) ==
    IF ExecuteResponse(automation_running) = "already_running"
    THEN UNCHANGED vars
    ELSE /\ \E t \in Threads :
              /\ th[t].pc = "idle"
              /\ \A u \in Threads : u < t => th[u].pc # "idle"
              /\ th' = [th EXCEPT ![t].pc = "start", ![t].workflow_id = w]
         /\ UNCHANGED <<automation_running, execution_logs, learning_db, clock>>

\* stop_after notes, for a thread between two steps, how many steps it had
\* completed when stop was first issued.
StopNoted ==
    [t \in Threads |->
        IF /\ th[t].pc = "loop"
           /\ th[t].i >= 2
           /\ th[t].i <= th[t].nsteps
           /\ th[t].stop_after = 0
        THEN [th[t] EXCEPT !.stop_after = th[t].i - 1]
        ELSE th[t]]

\* The response of POST /api/stop.
StopResponse == "stopped"

\* A stop handler that also writes an entry to the log.
StopExecutionLogs ==
    /\ automation_running' = FALSE
    /\ th' = StopNoted
    /\ execution_logs' = LogFeedback(execution_logs, 0, <<"stopped">>, 0)
    /\ UNCHANGED <<learning_db, clock>>

\* POST /api/stop: clears the flag and answers; nothing else is written.
StopExecution ==
    /\ automation_running' = FALSE
    /\ th' = StopNoted
    /\ UNCHANGED <<execution_logs, learning_db, clock>>

\* The body of the response of GET /api/logs.
LogsResponse == [logs |-> execution_logs, running |-> automation_running]

\* GET /api/logs: reads the two globals, changes nothing.
GetLogs == UNCHANGED vars

Next ==
    \/ \E t \in Threads : ThreadBegin(t)
    \/ \E t \in Threads : LoopHead(t, BasicStepKinds)
    \/ \E t \in Threads : Dispatch(t)
    \/ \E t \in Threads : Calculate(t)
    \/ \E t \in Threads : RecordLoad(t)
    \/ \E t \in Threads : RecordSave(t)
    \/ \E t \in Threads : Finish(t)
    \/ \E w \in BasicWorkflowIds : ExecuteWorkflow(w)
    \/ StopExecution
    \/ GetLogs

Spec == Init /\ [][Next]_vars

\* ------------------------------------------------- one run after another
\* A start request is accepted only when no execution thread is left from an
\* earlier request (one that finds the flag set is rejected whenever it
\* arrives); the steps are drawn from every step kind.
NextSequential ==
    \/ \E t \in Threads : ThreadBegin(t)
    \/ \E t \in Threads : LoopHead(t, StepKinds)
    \/ \E t \in Threads : Dispatch(t)
    \/ \E t \in Threads : Calculate(t)
    \/ \E t \in Threads : RecordLoad(t)
    \/ \E t \in Threads : RecordSave(t)
    \/ \E t \in Threads : Finish(t)
    \/ \E w \in BasicWorkflowIds :
          /\ automation_running \/ \A t \in Threads : ~Live(t)
          /\ ExecuteWorkflow(w)
    \/ StopExecution
    \/ GetLogs

SpecSequential == Init /\ [][NextSequential]_vars

\* ------------------------------------------- a stop before the thread runs
\* StopNoted, and stop_after = -1 for a thread that Thread.start() has
\* started but that has not yet run `automation_running = True` when stop is
\* first issued.
StopNotedBeforeBegin ==
    [t \in Threads |->
        IF th[t].pc = "start" /\ th[t].stop_after = 0
        THEN [th[t] EXCEPT !.stop_after = -1]
        ELSE StopNoted[t]]

\* POST /api/stop as in StopExecution, noting also the threads it finds
\* before their first statement.
StopExecutionNoted ==
    /\ automation_running' = FALSE
    /\ th' = StopNotedBeforeBegin
    /\ UNCHANGED <<execution_logs, learning_db, clock>>

\* One run after another as in SpecSequential, with the stops noted from the
\* moment the start request is answered.
NextEarlyStop ==
    \/ \E t \in Threads : ThreadBegin(t)
    \/ \E t \in Threads : LoopHead(t, StepKinds)
    \/ \E t \in Threads : Dispatch(t)
    \/ \E t \in Threads : Calculate(t)
    \/ \E t \in Threads : RecordLoad(t)
    \/ \E t \in Threads : RecordSave(t)
    \/ \E t \in Threads : Finish(t)
    \/ \E w \in BasicWorkflowIds :
          /\ automation_running \/ \A t \in Threads : ~Live(t)
          /\ ExecuteWorkflow(w)
    \/ StopExecutionNoted
    \/ GetLogs

SpecEarlyStop == Init /\ [][NextEarlyStop]_vars

\* --------------------------------------------- runs of several workflows
\* One run after another as in SpecSequential, of any of the workflows, the
\* steps drawn from BasicStepKinds.
NextWorkflows ==
    \/ \E t \in Threads : ThreadBegin(t)
    \/ \E t \in Threads : LoopHead(t, BasicStepKinds)
    \/ \E t \in Threads : Dispatch(t)
    \/ \E t \in Threads : Calculate(t)
    \/ \E t \in Threads : RecordLoad(t)
    \/ \E t \in Threads : RecordSave(t)
    \/ \E t \in Threads : Finish(t)
    \/ \E w \in WorkflowIds :
          /\ automation_running \/ \A t \in Threads : ~Live(t)
          /\ ExecuteWorkflow(w)
    \/ StopExecution
    \/ GetLogs

SpecWorkflows == Init /\ [][NextWorkflows]_vars

\* ------------------------------------------------------ every step kind
\* The first run of a fresh process, its steps drawn from every step kind of
\* the dispatcher.
NextDispatch ==
    \/ \E t \in Threads : ThreadBegin(t)
    \/ \E t \in Threads : LoopHead(t, DispatcherStepKinds)
    \/ \E t \in Threads : Dispatch(t)
    \/ \E t \in Threads : Calculate(t)
    \/ \E t \in Threads : RecordLoad(t)
    \/ \E t \in Threads : RecordSave(t)
    \/ \E t \in Threads : Finish(t)
    \/ \E w \in BasicWorkflowIds :
          /\ \A t \in Threads : th[t].pc = "idle"
          /\ ExecuteWorkflow(w)
    \/ StopExecution
    \/ GetLogs

SpecDispatch == Init /\ [][NextDispatch]_vars

\* ------------------------------------------------- AutomationRunner
\* th[1] is the process that runs AutomationRunner.execute_workflow(dry_run)
\* on a workflow of nsteps steps. stdout holds the action of each
\* "[Step n] ACTION: description" line printed, effects the calls made to
\* pyautogui and time.sleep.

\* `if not dry_run: ... time.sleep(3)`.
GraceDelay(dry_run) == IF dry_run THEN <<>> ELSE <<"sleep">>

\* execute_workflow up to the loop: no steps, or the banner and the delay.
RunnerBegin(t) ==
    /\ th[t].pc = "run"
    /\ IF th[t].nsteps = 0
       THEN th' = [th EXCEPT ![t].pc = "ran"]
       ELSE th' = [th EXCEPT ![t].pc = "step", ![t].i = 1,
                             ![t].effects = @ \o GraceDelay(th[t].dry_run)]
    /\ UNCHANGED <<automation_running, execution_logs, learning_db, clock>>

\* The calls _execute_click, _execute_type, _execute_wait, _execute_hotkey
\* and _execute_command make for step s.
StepEffects(s) ==
    IF s.action = "click" THEN IF s.has_xy THEN <<"click">> ELSE <<>>
    ELSE IF s.action = "type"
    THEN IF s.arg = "empty" THEN <<>> ELSE <<"write">>
    ELSE IF s.action = "wait" THEN <<"sleep">>
    ELSE IF s.action = "hotkey"
    THEN IF s.arg = "empty" THEN <<>> ELSE <<"hotkey">>
    ELSE <<>>

\* step.get('action', 'unknown').
ActionOf(s) == IF s.action = "none" THEN "unknown" ELSE s.action

\* One iteration of `for step in self.automation_steps`: execute_step. The
\* header line calls action.upper(), which raises for an action that is not
\* a string; nothing in execute_workflow catches that.
RunnerStep(t) ==
    /\ th[t].pc = "step"
    /\ \E s \in RunnerStepKinds :
         IF s.action = "null"
         THEN th' = [th EXCEPT ![t].pc = "raised"]
         ELSE th' = [th EXCEPT
                       ![t].pc = IF th[t].i = th[t].nsteps THEN "ran" ELSE "step",
                       ![t].i = NextIndex(@),
                       ![t].stdout = Append(@, ActionOf(s)),
                       ![t].effects =
                           IF th[t].dry_run THEN @ ELSE @ \o StepEffects(s)]
    /\ UNCHANGED <<automation_running, execution_logs, learning_db, clock>>

InitRunner ==
    /\ automation_running = FALSE
    /\ execution_logs = <<>>
    /\ learning_db = [exists |-> FALSE, json |-> JsonNull]
    /\ \E n \in 0..MaxSteps, d \in BOOLEAN :
          th = [t \in Threads |->
                  IF t = 1
                  THEN [IdleThread EXCEPT !.pc = "run", !.nsteps = n, !.dry_run = d]
                  ELSE IdleThread]
    /\ clock = 0

NextRunner ==
    \/ \E t \in Threads : RunnerBegin(t)
    \/ \E t \in Threads : RunnerStep(t)

SpecRunner == InitRunner /\ [][NextRunner]_vars

\* ------------------------------------------------------ the reasoning text
\* The first iteration of a run has logged "Step 1/N" for a step drawn from
\* ReasoningSteps; the reasoning entry comes next.
InitReasoning ==
    /\ automation_running = TRUE
    /\ execution_logs =
          LogFeedback(LogFeedback(<<>>, 1, <<"starting", "total", "grace">>, 0),
                      1, <<"step">>, 1)
    /\ learning_db = [exists |-> FALSE, json |-> JsonNull]
    /\ \E s \in ReasoningSteps, n \in 1..MaxSteps :
          th = [t \in Threads |->
                  IF t = 1
                  THEN [IdleThread EXCEPT !.pc = "reason", !.nsteps = n,
                                          !.i = 1, !.step = s]
                  ELSE IdleThread]
    /\ clock = 0

NextReasoning == \E t \in Threads : Reason(t)

SpecReasoning == InitReasoning /\ [][NextReasoning]_vars

\* ------------------------------------------------------ the recorder alone
\* The database file after n earlier runs were recorded one after another:
\* run k was recorded at time k, the workflows and the outcomes alternating.
SeedWorkflow(k) == IF k % 2 = 0 THEN "wf2" ELSE "wf1"

SeedSuccess(k) == k % 3 # 0

SeedEntry(k) ==
    CurveEntry(SeedWorkflow(k), SeedSuccess(k), IF SeedSuccess(k) THEN 2 ELSE 1, 2, k)

SeedDatabase(n) ==
    LET kept == IF n <= CurveCap THEN n ELSE CurveCap
        runs(w) == {k \in 1..n : SeedWorkflow(k) = w}
    IN [total_sessions |-> 0,
        total_automations |-> n,
        workflow_improvements |-> <<>>,
        success_rate |->
            [w \in {SeedWorkflow(k) : k \in 1..n} |->
                [total |-> Cardinality(runs(w)),
                 successful |-> Cardinality({k \in runs(w) : SeedSuccess(k)}),
                 last_run |-> CHOOSE k \in runs(w) : \A j \in runs(w) : j <= k]],
        learning_curve |-> [j \in 1..kept |-> SeedEntry(n - kept + j)]]

\* How many runs the database file found at start-up has recorded.
SeedRuns == {0, CurveCap - 1, CurveCap}

\* Every thread is about to call update_learning_data with the outcome of a
\* run of some workflow of MaxSteps steps, all or all but one of them
\* successful; the database file holds some earlier runs.
InitRecorder ==
    /\ automation_running = TRUE
    /\ execution_logs = <<>>
    /\ \E n \in SeedRuns :
         /\ clock = n
         /\ learning_db = IF n = 0
                          THEN [exists |-> FALSE, json |-> JsonNull]
                          ELSE SaveLearningData(SeedDatabase(n))
    /\ th \in [Threads ->
                 {[IdleThread EXCEPT !.pc = "record", !.workflow_id = w,
                                     !.nsteps = MaxSteps, !.i = MaxSteps + 1,
                                     !.successful_steps = k] :
                     w \in WorkflowIds, k \in {MaxSteps - 1, MaxSteps}}]

NextRecorder ==
    \/ \E t \in Threads : RecordLoad(t)
    \/ \E t \in Threads : RecordSave(t)

SpecRecorder == InitRecorder /\ [][NextRecorder]_vars

\* ================================================================ claims
\* What load_learning_data reads from the database file.
Database == LoadLearningData(learning_db)

\* The number of steps of thread t whose dispatch has begun.
DispatchBegun(t) ==
    IF th[t].pc = "dispatch" THEN th[t].i
    ELSE IF th[t].i > 0 THEN th[t].i - 1 ELSE 0

\* The run of thread t left the loop by the cancellation break and is being
\* handed to update_learning_data.
CancelledAndHanded(t) ==
    /\ th[t].outcome = "cancelled"
    /\ th[t].pc \in {"record", "save"}

\* The actions the dispatcher of dashboard.py knows.
KnownActions == {"click", "type", "wait", "hotkey"}

\* a is an initial segment of b.
IsPrefix(a, b) == Len(a) <= Len(b) /\ SubSeq(b, 1, Len(a)) = a

\* C1: in every reachable state at most one execution thread exists, and the
\* log never holds an entry of one run between two entries of another run.
C1_SingleExecution ==
    /\ Cardinality({t \in Threads : Live(t)}) <= 1
    /\ \A a, b, c \in 1..Len(execution_logs) :
         (a < b /\ b < c /\ execution_logs[a].run = execution_logs[c].run)
            => execution_logs[b].run = execution_logs[a].run

\* C2: once every accepted run has returned, by whatever path, the running
\* flag is released (the controller is not left stuck in Running).
C2_NeverStuckRunning ==
    (\A t \in Threads : ~Live(t)) => ~automation_running

\* C3: when stop() is issued after step k of N completed (1 <= k < N) and
\* before step k+1 began, no step after k is ever dispatched and the run ends
\* Cancelled.
C3_NoDispatchAfterStop ==
    \A t \in Threads :
        th[t].stop_after > 0 =>
            /\ DispatchBegun(t) <= th[t].stop_after
            /\ th[t].pc = "done" => th[t].outcome = "cancelled"

C5_SuccessIffAllSteps ==
    [][\A t \in Threads :
          (th[t].pc = "save" /\ th'[t].pc = "finish") =>
              LET old == StatsOf(th[t].learning_data, th[t].workflow_id)
                  new == LoadLearningData(learning_db').success_rate[th[t].workflow_id]
              IN /\ new.total = old.total + 1
                 /\ new.successful =
                       IF th[t].successful_steps = th[t].nsteps
                       THEN old.successful + 1 ELSE old.successful]_vars

\* C5 witness: a run with some but not all steps successful has been
\* recorded: its workflow has runs but no successful run.
C5_Witness ==
    \E t \in Threads :
        /\ th[t].pc = "finish"
        /\ th[t].successful_steps > 0
        /\ th[t].successful_steps < th[t].nsteps
        /\ learning_db.exists
        /\ th[t].workflow_id \in DOMAIN Database.success_rate
        /\ Database.success_rate[th[t].workflow_id].total = 1
        /\ Database.success_rate[th[t].workflow_id].successful = 0

\* The learning_curve of the database file.
Curve == Database.learning_curve

\* C6: the learning_curve never holds more than 100 entries and is in
\* most-recent-last order; each recorded run writes back the curve its call
\* loaded as a trailing window: the new entry last, before it the most recent
\* entries of the loaded curve in their order, the oldest evicted first.
C6_TrailingWindow ==
    /\ [](\A curve \in {Curve} :
              /\ Len(curve) <= CurveCap
              /\ \A j \in 1..(Len(curve) - 1) :
                    curve[j].timestamp < curve[j + 1].timestamp)
    /\ [][\A t \in Threads :
            (th[t].pc = "save" /\ th'[t].pc = "finish") =>
                \A old \in {th[t].learning_data.learning_curve},
                   new \in {LoadLearningData(learning_db').learning_curve} :
                 \A n \in {Len(new)} :
                   /\ n = IF Len(old) < CurveCap THEN Len(old) + 1 ELSE CurveCap
                   /\ new[n].timestamp = clock'
                   /\ new[n].workflow_id = th[t].workflow_id
                   /\ new[n].steps_completed = th[t].successful_steps
                   /\ new[n].total_steps = th[t].nsteps
                   /\ SubSeq(new, 1, n - 1) =
                         SubSeq(old, Len(old) - (n - 1) + 1, Len(old))]_vars

\* C6 witness: a run was recorded into a full curve: the curve holds 100
\* entries, the oldest ones evicted, the entry of the run last.
C6_Witness ==
    \E t \in Threads :
        /\ th[t].pc = "finish"
        /\ Len(Curve) = CurveCap
        /\ Curve[1].timestamp > 1
        /\ Curve[CurveCap].timestamp = clock
        /\ Curve[CurveCap].workflow_id = th[t].workflow_id
        /\ clock > CurveCap

\* C7: every run that returned Completed, Cancelled or Failed was handed to
\* update_learning_data exactly once.
C7_RecordedOnce ==
    \A t \in Threads :
        (th[t].pc = "done" /\ th[t].outcome \in {"completed", "cancelled", "failed"})
            => th[t].recorded = 1

\* C8: a run of a workflow with zero steps does not take the critical-error
\* path: it goes on to be recorded and completed.
C8_EmptyRunCompletes ==
    [][\A t \in Threads :
          (th[t].pc = "loop" /\ th[t].nsteps = 0 /\ th'[t] # th[t]) =>
              (th'[t].pc = "record" /\ th'[t].outcome # "failed")]_vars

\* C9: the dispatch of a click step without x or y coordinates is not counted
\* among the successful steps, and the run goes on to the next step.
C9_ClickWithoutCoordinatesFails ==
    [][\A t \in Threads :
          (/\ th[t].pc = "dispatch"
           /\ th[t].step.action = "click"
           /\ ~th[t].step.has_xy
           /\ th'[t] # th[t]) =>
              /\ th'[t].pc = "loop"
              /\ th'[t].i = th[t].i + 1
              /\ th'[t].successful_steps = th[t].successful_steps]_vars

\* C10: the dispatch of a step with an unrecognized action is not counted
\* among the successful steps, and the run goes on to the next step.
C10_UnrecognizedFails ==
    [][\A t \in Threads :
          (/\ th[t].pc = "dispatch"
           /\ th[t].step.action \notin KnownActions
           /\ th'[t] # th[t]) =>
              /\ th'[t].pc = "loop"
              /\ th'[t].i = th[t].i + 1
              /\ th'[t].successful_steps = th[t].successful_steps]_vars

\* C11: between two moments at which GET /api/logs may answer, the log of the
\* earlier answer is an initial segment of the log of the later one (no entry
\* vanishes, is reordered or duplicated), except when an execution thread has
\* begun in between: then the log holds entries of that new run only.
C11_PollPrefix ==
    [][\/ IsPrefix(LogsResponse.logs, LogsResponse'.logs)
       \/ \E t \in Threads :
             /\ th[t].pc = "start"
             /\ th'[t].pc # "start"
             /\ \A k \in 1..Len(LogsResponse'.logs) :
                    LogsResponse'.logs[k].run = t]_vars

\* C11 witness: a second run has reset the log of the first and has appended
\* the entries of its first step; a poll now answers while it is running.
C11_Witness ==
    /\ th[1].pc = "done"
    /\ th[2].pc = "loop"
    /\ th[2].i = 2
    /\ LogsResponse.running
    /\ Len(LogsResponse.logs) >= 6
    /\ \A k \in 1..Len(LogsResponse.logs) : LogsResponse.logs[k].run = 2

\* C12: a start request that finds a run in progress (the flag set) is
\* rejected without effect: it leaves the flag, the log, the database and
\* every thread as they were, and no thread is created while the flag is set.
C12_RejectedStartNoEffect ==
    [][automation_running =>
          /\ \A w \in WorkflowIds : ExecuteWorkflow(w) => UNCHANGED vars
          /\ \A t \in Threads : th[t].pc = "idle" => th'[t].pc = "idle"]_vars

\* C12 witness: a run is between two steps with the flag set and a thread
\* could still be created: a start request arriving now is rejected.
C12_Witness ==
    /\ automation_running
    /\ ExecuteResponse(automation_running) = "already_running"
    /\ th[1].pc = "loop"
    /\ th[1].i = 2
    /\ th[2].pc = "idle"
    /\ ENABLED (\E w \in BasicWorkflowIds : ExecuteWorkflow(w))

\* C13: stop() can always be called and answers 'stopped'; it writes neither
\* the log nor the database, when nothing is running it leaves every thread
\* as it was, and a second stop() right after it would change nothing (twice
\* is the same as once).
C13_StopIdempotent ==
    /\ [](ENABLED StopExecution /\ StopResponse = "stopped")
    /\ [][StopExecution =>
            /\ UNCHANGED <<execution_logs, learning_db>>
            /\ (\A t \in Threads : ~Live(t)) => UNCHANGED th
            /\ ~automation_running'
            /\ StopNoted' = th']_vars

\* C13 witness: stop() was called while nothing was running: the only run
\* returned on the missing-file path, which leaves the flag set, no other
\* thread was created, and the flag is clear.
C13_Witness ==
    /\ th[1].pc = "done"
    /\ th[1].outcome = "notfound"
    /\ \A t \in Threads : t # 1 => th[t].pc = "idle"
    /\ ~automation_running
    /\ Len(execution_logs) = 1

\* The number of entries with message msg that run t has in the log.
EntriesOf(t, msg) ==
    Cardinality({j \in 1..Len(execution_logs) :
                    execution_logs[j].run = t /\ execution_logs[j].msg = msg})

\* C14: when stop() was issued after step k of a run completed and before
\* step k+1 began, the log the run ends with holds exactly k "step" entries,
\* all of that run, and one cancellation entry, and recording the run adds 1
\* to the total of its workflow and nothing to its successful count.
C14_StopAfterStepK ==
    /\ [](\A t \in Threads :
            (th[t].stop_after > 0 /\ th[t].pc \in {"record", "save", "finish"}) =>
                /\ EntriesOf(t, "step") = th[t].stop_after
                /\ EntriesOf(t, "stopped") = 1
                /\ \A j \in 1..Len(execution_logs) : execution_logs[j].run = t)
    /\ [][\A t \in Threads :
            (th[t].stop_after > 0 /\ th[t].pc = "save" /\ th'[t].pc = "finish") =>
                LET old == StatsOf(th[t].learning_data, th[t].workflow_id)
                    new == LoadLearningData(learning_db').success_rate[th[t].workflow_id]
                IN new.total = old.total + 1 /\ new.successful = old.successful]_vars

\* C14 witness: stop() came after the first of two steps had succeeded; the
\* run ended with one "step" entry and the cancellation entry and has been
\* recorded: its workflow has one run and no successful run.
C14_Witness ==
    \E t \in Threads :
        /\ th[t].stop_after = 1
        /\ th[t].pc = "finish"
        /\ th[t].successful_steps = 1
        /\ EntriesOf(t, "step") = 1
        /\ EntriesOf(t, "stopped") = 1
        /\ learning_db.exists
        /\ Database.success_rate[th[t].workflow_id].total = 1
        /\ Database.success_rate[th[t].workflow_id].successful = 0

\* C15: when a run of an N-step workflow (N >= 1) whose N steps all counted
\* as successful is recorded, its outcome is 100%, the curve written back is
\* the loaded curve plus exactly one entry, which carries the workflow id,
\* success = true, steps_completed = N and total_steps = N, and on a fresh
\* database the record of the workflow is total = 1, successful = 1.
C15_AllStepsSucceed ==
    [][\A t \in Threads :
          (/\ th[t].pc = "save" /\ th'[t].pc = "finish"
           /\ th[t].successful_steps = th[t].nsteps) =>
              LET old == th[t].learning_data
                  new == LoadLearningData(learning_db')
                  w == th[t].workflow_id
              IN /\ SuccessRate(th[t].successful_steps, th[t].nsteps) = FullRate
                 /\ EntriesOf(t, "complete_all") = 1
                 /\ Len(old.learning_curve) < CurveCap =>
                       new.learning_curve =
                           Append(old.learning_curve,
                                  [timestamp |-> clock', workflow_id |-> w,
                                   success |-> TRUE,
                                   steps_completed |-> th[t].nsteps,
                                   total_steps |-> th[t].nsteps])
                 /\ old = DefaultLearningData =>
                       /\ DOMAIN new.success_rate = {w}
                       /\ new.success_rate[w].total = 1
                       /\ new.success_rate[w].successful = 1
                       /\ new.total_automations = 1]_vars

\* C15 witness: the first run ever recorded had all of its MaxSteps steps
\* successful: the database holds one curve entry and one successful run.
C15_Witness ==
    \E t \in Threads :
        /\ th[t].pc = "finish"
        /\ th[t].nsteps = MaxSteps
        /\ th[t].successful_steps = MaxSteps
        /\ learning_db.exists
        /\ Len(Curve) = 1
        /\ Curve[1].success
        /\ Curve[1].steps_completed = MaxSteps
        /\ Database.success_rate[th[t].workflow_id].successful = 1

\* The last entry of the log.
LastEntry(logs) == logs[Len(logs)]

\* C16: when the injection call of a step raises, the error is caught in
\* that step: an error entry of the step is logged, the step is not counted
\* as successful, and the run is not aborted: the thread is back at the head
\* of the loop for the next step, the flag untouched, and at the head of the
\* loop with steps left the next iteration can always be taken.
C16_DispatchErrorCaught ==
    /\ [](\A t \in Threads :
            (th[t].pc = "loop" /\ th[t].i <= th[t].nsteps) =>
                ENABLED LoopHead(t, StepKinds))
    /\ [][\A t \in Threads :
          (/\ th[t].pc = "dispatch"
           /\ th'[t] # th[t]
           /\ Len(execution_logs') > 0
           /\ LastEntry(execution_logs').msg = "error") =>
              /\ LastEntry(execution_logs') = Entry(t, "error", th[t].i)
              /\ th'[t].successful_steps = th[t].successful_steps
              /\ th'[t].pc = "loop"
              /\ th'[t].i = th[t].i + 1
              /\ th'[t].outcome = th[t].outcome
              /\ UNCHANGED automation_running]_vars

\* C16 witness: the injection call of step 1 raised, and the run is
\* dispatching step 2 with no successful step counted.
C16_Witness ==
    \E t \in Threads :
        /\ th[t].pc = "dispatch"
        /\ th[t].i = 2
        /\ th[t].successful_steps = 0
        /\ EntriesOf(t, "error") = 1
        /\ \E j \in 1..Len(execution_logs) :
              execution_logs[j] = Entry(t, "error", 1)

\* C17: a failure of the database write inside update_learning_data does not
\* reach the run being recorded: the call returns, no critical-error entry is
\* logged for it and the run does not end Failed.
C17_PersistenceFailureSwallowed ==
    [][\A t \in Threads :
          (th[t].pc = "save" /\ th'[t] # th[t]) =>
              /\ th'[t].pc = "finish"
              /\ th'[t].outcome # "failed"
              /\ EntriesOf(t, "critical")' = EntriesOf(t, "critical")]_vars

\* C18: from the moment start() has answered 'started' until its run ends,
\* GET /api/logs answers with entries of that run only (never the log of an
\* earlier run), and with running = true already before the execution thread
\* has executed its first statement.
C18_RunningWhenStartReturns ==
    \A t \in Threads :
        Live(t) =>
            /\ \A j \in 1..Len(LogsResponse.logs) : LogsResponse.logs[j].run = t
            /\ th[t].pc = "start" => LogsResponse.running

\* C19: a call of update_learning_data that writes the database back has
\* added exactly 1 to total_automations and exactly 1 to the total of the
\* recorded workflow, starting that record from zeros when the loaded
\* database had none, has set its last_run to the time of the call (never
\* null), and has left the records of the other workflows as loaded.
C19_RecordIncrements ==
    [][\A t \in Threads :
          (th[t].pc = "save" /\ th'[t].pc = "finish") =>
              LET old == th[t].learning_data
                  new == LoadLearningData(learning_db')
                  w == th[t].workflow_id
                  known == w \in DOMAIN old.success_rate
              IN /\ new.total_automations = old.total_automations + 1
                 /\ DOMAIN new.success_rate = DOMAIN old.success_rate \cup {w}
                 /\ new.success_rate[w].total =
                       (IF known THEN old.success_rate[w].total ELSE 0) + 1
                 /\ new.success_rate[w].successful \in
                       (IF known THEN {old.success_rate[w].successful,
                                       old.success_rate[w].successful + 1}
                        ELSE {0, 1})
                 /\ new.success_rate[w].last_run = clock'
                 /\ new.success_rate[w].last_run # 0
                 /\ \A v \in DOMAIN old.success_rate :
                       v # w => new.success_rate[v] = old.success_rate[v]]_vars

\* C19 witness: a run of a workflow the empty database did not know has been
\* recorded: its record was created and holds one run with a last_run time.
C19_Witness ==
    \E t \in Threads :
        /\ th[t].pc = "finish"
        /\ learning_db.exists
        /\ Database.total_automations = 1
        /\ DOMAIN Database.success_rate = {th[t].workflow_id}
        /\ Database.success_rate[th[t].workflow_id].total = 1
        /\ Database.success_rate[th[t].workflow_id].last_run = clock
        /\ clock > 0

InLoop(t) == th[t].pc \in {"loop", "dispatch"}

\* C21: a stop() that arrives while step k is being dispatched (the flag is
\* found cleared during the dispatch) does not interrupt it: the dispatch
\* ends with the result entry of step k. The flag then stays cleared while
\* the run is in its loop, and the next loop head logs the cancellation and
\* leaves the loop: no step after k is dispatched.
C21_CooperativeCancel ==
    [][\A t \in Threads :
          /\ (th[t].pc = "dispatch" /\ ~automation_running
                 /\ th'[t].pc # "dispatch") =>
                /\ Len(execution_logs') = Len(execution_logs) + 1
                /\ LastEntry(execution_logs') =
                      Entry(t, LastEntry(execution_logs').msg, th[t].i)
                /\ th'[t].pc = "loop"
                /\ th'[t].i = th[t].i + 1
          /\ (InLoop(t) /\ ~automation_running /\ th'[t].pc \in {"loop", "dispatch"}) =>
                ~automation_running'
          /\ (th[t].pc = "loop" /\ th[t].i <= th[t].nsteps
                 /\ ~automation_running /\ th'[t].pc # "loop") =>
                /\ th'[t].pc = "calc"
                /\ th'[t].outcome = "cancelled"
                /\ th'[t].i = th[t].i
                /\ LastEntry(execution_logs') = Entry(t, "stopped", 0)]_vars

\* C21 witness: stop() came during the dispatch of step 1 of 2 (not between
\* the steps): step 1 completed and was counted, and the run has left the
\* loop at the head of step 2.
C21_Witness ==
    \E t \in Threads :
        /\ th[t].pc = "calc"
        /\ th[t].outcome = "cancelled"
        /\ th[t].stop_after = 0
        /\ th[t].i = 2
        /\ th[t].successful_steps = 1
        /\ EntriesOf(t, "clicked") = 1
        /\ EntriesOf(t, "step") = 1

\* The "Step i/N" entries of run t in the log, in log order.
StepEntries(t) ==
    SelectSeq(execution_logs, LAMBDA e : e.run = t /\ e.msg = "step")

\* C22: at every point of a run the steps whose dispatch has begun are steps
\* 1..k of the definition for some k <= N, begun in that order and each
\* once: the "Step i/N" entries of the run are those of 1, 2, ..., k.
C22_DefinitionOrder ==
    \A t \in Threads :
        (Live(t) /\ th[t].pc # "start") =>
            /\ DispatchBegun(t) <= th[t].nsteps
            /\ Len(StepEntries(t)) = DispatchBegun(t)
            /\ \A j \in 1..Len(StepEntries(t)) : StepEntries(t)[j].step = j

\* C22 witness: every step of a workflow of MaxSteps steps has been
\* dispatched and the run is past its loop.
C22_Witness ==
    \E t \in Threads :
        /\ th[t].pc = "record"
        /\ th[t].nsteps = MaxSteps
        /\ DispatchBegun(t) = MaxSteps
        /\ Len(StepEntries(t)) = MaxSteps
        /\ StepEntries(t)[MaxSteps].step = MaxSteps

\* The entries that report the result of a dispatch.
ResultMessages ==
    {"clicked", "nocoords", "typed", "waited", "pressed", "unknown", "error"}

\* The positions of the log that hold an entry with message msg.
PositionsOf(msg) ==
    {k \in 1..Len(execution_logs) : execution_logs[k].msg = msg}

\* C23: the log of a run is ordered: the grace entry precedes every step
\* entry; the "Step i/N" entry of a step is directly followed by its
\* reasoning entry; and a result entry lies between the reasoning entry of
\* step i and the "Step i+1/N" entry, which carries the next step number.
C23_LogOrder ==
    \A k \in PositionsOf("step") :
        /\ \E g \in PositionsOf("grace") : g < k
        /\ k + 1 <= Len(execution_logs)
        /\ execution_logs[k + 1].msg = "reasoning"
        /\ \A k2 \in PositionsOf("step") :
              (k2 > k /\ \A m \in PositionsOf("step") : ~(k < m /\ m < k2)) =>
                  /\ execution_logs[k2].step = execution_logs[k].step + 1
                  /\ \E r \in (k + 2)..(k2 - 1) :
                        execution_logs[r].msg \in ResultMessages

\* C23 witness: the log holds the entries of two steps, the second one a
\* click whose result is logged after its announcement.
C23_Witness ==
    /\ Cardinality(PositionsOf("step")) = 2
    /\ Len(execution_logs) >= 2
    /\ execution_logs[Len(execution_logs)].msg = "clicked"
    /\ execution_logs[Len(execution_logs)].step = 2
    /\ execution_logs[Len(execution_logs) - 1].msg = "clicking"

\* C24: a step whose action is missing or malformed does not end the run:
\* whenever the loop takes a step with the flag set, that step is dispatched
\* (as an unrecognized action) and the loop remains to take the next one.
C24_MalformedActionDispatched ==
    [][\A t \in Threads :
          (/\ th[t].pc = "loop"
           /\ th[t].i <= th[t].nsteps
           /\ automation_running
           /\ th'[t].pc # "loop") =>
              /\ th'[t].pc = "dispatch"
              /\ th'[t].i = th[t].i
              /\ automation_running']_vars

\* The dispatch of the step of thread t has ended in this step of the run.
DispatchEnds(t) == th[t].pc = "dispatch" /\ th'[t].pc # "dispatch"

\* C25: the dispatch of an execute step ends with the deferred result, not
\* with the result of an unknown action, and the run goes on.
C25_ExecuteDeferred ==
    [][\A t \in Threads :
          (DispatchEnds(t) /\ th[t].step.action = "execute") =>
              /\ th'[t].pc = "loop"
              /\ LastEntry(execution_logs').msg # "unknown"]_vars

\* C26: the dispatch of a hotkey step with an empty key list ends with an
\* error result: the step is not counted among the successful ones, no
\* "Hotkey pressed" entry is logged, and the run goes on to the next step.
C26_EmptyHotkeyFails ==
    [][\A t \in Threads :
          (/\ DispatchEnds(t)
           /\ th[t].step.action = "hotkey"
           /\ th[t].step.arg = "empty") =>
              /\ th'[t].pc = "loop"
              /\ th'[t].i = th[t].i + 1
              /\ th'[t].successful_steps = th[t].successful_steps
              /\ LastEntry(execution_logs').msg = "error"]_vars

\* C27: the dispatch of a wait step with a negative number of seconds is
\* a successful step: it is counted, its result is "Wait complete", and the
\* run goes on to the next step.
C27_NegativeWaitSucceeds ==
    [][\A t \in Threads :
          (/\ DispatchEnds(t)
           /\ th[t].step.action = "wait"
           /\ th[t].step.arg = "negative") =>
              /\ th'[t].pc = "loop"
              /\ th'[t].i = th[t].i + 1
              /\ th'[t].successful_steps = th[t].successful_steps + 1
              /\ LastEntry(execution_logs').msg = "waited"]_vars

\* The keywords of the refinements in their order of priority, and the
\* sentence each one adds.
Keywords ==
    <<<<"s", "a", "v", "e">>, <<"o", "p", "e", "n">>,
      <<"c", "l", "o", "s", "e">>>>

RefinementOf ==
    <<". This appears to be a save operation.",
      ". This will open the application or file.",
      ". This will close the current window.">>

\* The keyword occurs in the description, letter case ignored.
OccursIgnoringCase(kw, description) ==
    \E p \in 1..Len(description) :
        /\ p + Len(kw) - 1 <= Len(description)
        /\ \A j \in 1..Len(kw) : LowerChar(description[p + j - 1]) = kw[j]

\* The keywords that occur in the description, by priority.
KeywordsIn(description) ==
    {k \in 1..Len(Keywords) : OccursIgnoringCase(Keywords[k], description)}

\* C28: the reasoning text logged for a step is determined by its action and
\* its description alone, and is defined for every such pair: the template
\* of the action (the default one for an action without a template),
\* followed by at most one refinement, that of the first of 'save', 'open',
\* 'close' to occur in the description in any letter case.
C28_ReasoningText ==
    [][\A t \in Threads :
          (th[t].pc = "reason" /\ th'[t].pc # "reason") =>
              LET text == LastEntry(execution_logs').msg
                  found == KeywordsIn(th[t].step.description)
                  first == CHOOSE k \in found : \A m \in found : k <= m
              IN  /\ Len(execution_logs') = Len(execution_logs) + 1
                  /\ text[1] = ReasoningTemplates(th[t].step.action)
                  /\ (th[t].step.action \notin {"click", "type", "wait", "hotkey"}) =>
                        text[1] = "Executing this step as part of the learned workflow"
                  /\ IF found = {}
                     THEN Len(text) = 1
                     ELSE Len(text) = 2 /\ text[2] = RefinementOf[first]]_vars

\* C28 witness: the reasoning of a type step described as "open Save" has
\* been logged with the save refinement.
C28_Witness ==
    \E t \in Threads :
        /\ th[t].pc = "reasoned"
        /\ th[t].step.action = "type"
        /\ th[t].step.description =
              <<"o", "p", "e", "n", " ", "S", "a", "v", "e">>
        /\ LastEntry(execution_logs).msg =
              <<"I'm entering this text because it was part of the observed pattern",
                ". This appears to be a save operation.">>

\* C29: when execute_workflow(dry_run=True) has ended, every step of the
\* workflow has been visited, in order, and no call to pyautogui or
\* time.sleep has been made: neither for a step nor for the grace delay.
C29_DryRunOnlySimulates ==
    \A t \in Threads :
        (th[t].dry_run /\ th[t].pc \in {"ran", "raised"}) =>
            /\ Len(th[t].stdout) = th[t].nsteps
            /\ th[t].effects = <<>>

\* C30: no update of the database is lost, however the calls of
\* update_learning_data interleave: total_automations is the number of runs
\* in the database found at start-up plus the number of calls that have
\* written the database back (clock counts exactly these), and the
\* learning_curve holds one entry for each of them, up to CurveCap.
C30_NoLostUpdate ==
    learning_db.exists =>
        \A db \in {Database} :
            /\ db.total_automations = clock
            /\ Len(db.learning_curve) =
                  (IF clock <= CurveCap THEN clock ELSE CurveCap)

\* C31: a stop() issued after the start request was answered 'started' and
\* before the execution thread has run its first statement cancels that
\* run: the thread never begins the dispatch of a step.
C31_EarlyStopNotLost ==
    \A t \in Threads :
        th[t].stop_after = -1 => DispatchBegun(t) = 0

\* C32: once stop() has been issued to a run between two of its steps, that
\* run never again begins the dispatch of a step and never appends another
\* "Step i/N" entry to the log, whatever start requests follow.
C32_StickyCancel ==
    [][\A t \in Threads :
          th[t].stop_after > 0 =>
              /\ ~(th[t].pc = "loop" /\ th'[t].pc = "dispatch")
              /\ EntriesOf(t, "step")' <= EntriesOf(t, "step")]_vars

\* The run of thread t was cancelled at the head of its first iteration.
CancelledInGrace(t) == th[t].outcome = "cancelled" /\ th[t].i = 1

\* C33: when the loop finds the flag cleared at the head of its first
\* iteration (stop() took effect during the grace delay), no step is
\* dispatched, the cancellation entry is logged, and the entry the recorder
\* writes for the run has success = false and steps_completed = 0.
C33_StopInGrace ==
    /\ [][\A t \in Threads :
            (th[t].pc = "loop" /\ th[t].i = 1 /\ th[t].i <= th[t].nsteps
                /\ ~automation_running /\ th'[t].pc # "loop") =>
                  /\ th'[t].pc = "calc"
                  /\ CancelledInGrace(t)'
                  /\ LastEntry(execution_logs') = Entry(t, "stopped", 0)]_vars
    /\ [](\A t \in Threads :
            (CancelledInGrace(t) /\ Live(t)) =>
                /\ DispatchBegun(t) = 0
                /\ EntriesOf(t, "step") = 0
                /\ EntriesOf(t, "stopped") = 1
                /\ th[t].successful_steps = 0)
    /\ [][\A t \in Threads :
            (CancelledInGrace(t) /\ th[t].pc = "save" /\ th'[t].pc = "finish") =>
                \A curve \in {LoadLearningData(learning_db').learning_curve} :
                    /\ Len(curve) >= 1
                    /\ ~curve[Len(curve)].success
                    /\ curve[Len(curve)].steps_completed = 0
                    /\ curve[Len(curve)].total_steps = th[t].nsteps]_vars

\* C33 witness: a run of MaxSteps steps cancelled in its grace delay has
\* been recorded: no step entry, one cancellation entry, and the last entry
\* of the curve reports no step completed.
C33_Witness ==
    \E t \in Threads :
        /\ CancelledInGrace(t)
        /\ th[t].pc = "finish"
        /\ th[t].nsteps = MaxSteps
        /\ EntriesOf(t, "step") = 0
        /\ EntriesOf(t, "stopped") = 1
        /\ learning_db.exists
        /\ Len(Curve) >= 1
        /\ Curve[Len(Curve)].steps_completed = 0
        /\ ~Curve[Len(Curve)].success

\* The run of thread t has completed its loop or has been cancelled.
RunOver(t) ==
    \/ th[t].outcome \in {"cancelled", "completed"}
    \/ th[t].pc \in {"record", "save", "finish"}

\* update_learning_data has written the update of the run of thread t.
RunRecorded(t) ==
    \/ th[t].pc = "finish"
    \/ th[t].pc = "done" /\ th[t].outcome \in {"cancelled", "completed"}

\* C34: whenever GET /api/logs reports running = false and a run has
\* completed its loop or has been cancelled, the update of that run has
\* already been written to the database.
C34_ReleasedAfterRecorded ==
    \A t \in Threads :
        (~LogsResponse.running /\ RunOver(t)) => RunRecorded(t)

RECURSIVE SumOfTotals(_, _)
\* The sum of the totals of the records of the workflows in ws.
SumOfTotals(success_rate, ws) ==
    IF ws = {} THEN 0
    ELSE LET w == CHOOSE v \in ws : TRUE
         IN success_rate[w].total + SumOfTotals(success_rate, ws \ {w})

\* C35: in every database file written, whatever the interleaving of the
\* calls that wrote it, each workflow record has 0 <= successful <= total
\* and total >= 1, and total_automations is the sum of the totals of the
\* workflow records.
C35_RecordsConsistent ==
    learning_db.exists =>
        \A db \in {Database} :
            /\ \A w \in DOMAIN db.success_rate :
                  /\ 0 <= db.success_rate[w].successful
                  /\ db.success_rate[w].successful <= db.success_rate[w].total
                  /\ db.success_rate[w].total >= 1
            /\ db.total_automations =
                  SumOfTotals(db.success_rate, DOMAIN db.success_rate)

\* C35 witness: starting from no database file, two calls for two
\* workflows have been written one after the other; the database holds
\* two records that sum to total_automations = 2.
C35_Witness ==
    /\ learning_db.exists
    /\ clock = 2
    /\ DOMAIN Database.success_rate = WorkflowIds
    /\ Database.total_automations = 2
    /\ \A w \in WorkflowIds : Database.success_rate[w].total = 1

\* C36: every learning_curve entry in the database has
\* 0 <= steps_completed <= total_steps, and its success flag is true exactly
\* when steps_completed = total_steps.
C36_CurveEntryBounds ==
    learning_db.exists =>
        \A curve \in {Curve} :
            \A j \in 1..Len(curve) :
                /\ 0 <= curve[j].steps_completed
                /\ curve[j].steps_completed <= curve[j].total_steps
                /\ curve[j].success <=>
                      (curve[j].steps_completed = curve[j].total_steps)

\* C36 witness: a run of MaxSteps steps of which exactly one raised has
\* been recorded: MaxSteps - 1 steps completed, no success.
C36_Witness ==
    /\ learning_db.exists
    /\ Len(Curve) = 1
    /\ Curve[1].total_steps = MaxSteps
    /\ Curve[1].steps_completed = MaxSteps - 1
    /\ ~Curve[1].success
    /\ \E t \in Threads : th[t].pc = "finish" /\ EntriesOf(t, "error") = 1

\* Thread t completes its call of update_learning_data in this step.
RecordCompletes(t) == th[t].pc = "save" /\ th'[t].pc = "finish"

\* C37: a call of update_learning_data for workflow w writes back
\* total_sessions, workflow_improvements and the records of the workflows
\* other than w as it loaded them; and no step other than such a call, so
\* none of the handlers of start, stop and poll, changes the database file.
C37_RecordFrame ==
    [][/\ \A t \in Threads :
            RecordCompletes(t) =>
                LET old == th[t].learning_data
                    new == LoadLearningData(learning_db')
                    w == th[t].workflow_id
                IN /\ new.total_sessions = old.total_sessions
                   /\ new.workflow_improvements = old.workflow_improvements
                   /\ DOMAIN new.success_rate \ {w} = DOMAIN old.success_rate \ {w}
                   /\ \A v \in DOMAIN old.success_rate \ {w} :
                         new.success_rate[v] = old.success_rate[v]
       /\ (\A t \in Threads : ~RecordCompletes(t)) => UNCHANGED learning_db
       /\ (\E w \in WorkflowIds : ExecuteWorkflow(w)) => UNCHANGED learning_db
       /\ StopExecution => UNCHANGED learning_db
       /\ GetLogs => UNCHANGED learning_db]_vars

\* C37 witness: a run of wf2 has been recorded into a database that held a
\* record of wf1, and a stop was issued during the run (the flag is clear
\* before the thread has released it): the record of wf1 is still there.
C37_Witness ==
    \E t \in Threads :
        /\ th[t].pc = "finish"
        /\ th[t].workflow_id = "wf2"
        /\ ~automation_running
        /\ learning_db.exists
        /\ DOMAIN Database.success_rate = {"wf1", "wf2"}
        /\ Database.success_rate["wf1"].total = 1
        /\ Database.total_sessions = 0

====
